---- MODULE Spec2Model ----
(***************************************************************************)
(* Model of the tag-parser crate (src/src/lib.rs): TagParser holds a text  *)
(* buffer `data` and a list `groups`; `parse` scans the buffer line by     *)
(* line and appends Group records {name, tags} to `groups`.                *)
(*                                                                         *)
(* A string is a sequence of characters; a character is a one-element      *)
(* TLA+ string, except Wide, which stands for a character whose UTF-8      *)
(* encoding takes three bytes (such as a CJK ideograph).                   *)
(***************************************************************************)
EXTENDS Integers, Sequences, FiniteSets, TLC

\* ------------------------------------------------------------------ bounds
\* Largest number of fragments an input text is assembled from.
MaxFrags == 4
\* Largest number of parse runs on one parser instance.
MaxRuns == 2

\* -------------------------------------------------------------- characters
Wide == "U+9032"
LF == "\n"
CR == "\r"
TAB == "\t"

\* char::is_whitespace, restricted to the characters of the model.
IsWhitespace(c) == c \in {" ", TAB, LF, CR}

\* Number of bytes of the UTF-8 encoding of a character.
ByteLen(c) == IF c = Wide THEN 3 ELSE 1

RECURSIVE Utf8Len(_)
\* str::len: the length of a string in bytes.
Utf8Len(s) == IF s = <<>> THEN 0 ELSE ByteLen(Head(s)) + Utf8Len(Tail(s))

\* str::is_char_boundary: the byte offsets at which a character starts or
\* the string ends.
CharBoundaries(s) == {Utf8Len(SubSeq(s, 1, k)) : k \in 0..Len(s)}

\* str::starts_with(char)
StartsWith(s, c) == Len(s) > 0 /\ s[1] = c

\* ---------------------------------------------------------------- str::lines
RECURSIVE SplitInclusive(_, _)
\* str::split_inclusive('\n'): the pieces of a text, each piece ending
\* with its line feed, except possibly the last; `cur` is the piece being built.
SplitInclusive(text, cur) ==
    IF text = <<>> THEN (IF cur = <<>> THEN <<>> ELSE <<cur>>)
    ELSE IF Head(text) = LF
         THEN <<Append(cur, LF)>> \o SplitInclusive(Tail(text), <<>>)
         ELSE SplitInclusive(Tail(text), Append(cur, Head(text)))

\* One piece without its line ending: a final "\n" is removed, and then a
\* final "\r" if there is one; a piece with no "\n" is returned as it is.
StripLineEnding(piece) ==
    IF piece # <<>> /\ piece[Len(piece)] = LF
    THEN LET l == SubSeq(piece, 1, Len(piece) - 1)
         IN  IF l # <<>> /\ l[Len(l)] = CR THEN SubSeq(l, 1, Len(l) - 1) ELSE l
    ELSE piece

\* str::lines
Lines(text) ==
    LET pieces == SplitInclusive(text, <<>>)
    IN  [i \in 1..Len(pieces) |-> StripLineEnding(pieces[i])]

\* ------------------------------------------------------ the filter of parse
\* (mutation of Retained) full-line comments are kept.
RetainedMut(line) == line # <<>>

\* The filter closure of parse: the line is kept.
Retained(line) == line # <<>> /\ ~StartsWith(line, "#")

RECURSIVE FilterLines(_)
\* Iterator::filter over the lines, with Retained.
FilterLines(ls) ==
    IF ls = <<>> THEN <<>>
    ELSE IF Retained(Head(ls)) THEN <<Head(ls)>> \o FilterLines(Tail(ls))
         ELSE FilterLines(Tail(ls))

\* ---------------------------------------------------- comment cut and trim
\* (mutation of CutComment) the text is kept whole: no comment is cut.
CutCommentMut(s) == s

RECURSIVE CutComment(_)
\* line.split('#').next().unwrap(): the text before the first '#'.
CutComment(s) ==
    IF s = <<>> \/ Head(s) = "#" THEN <<>>
    ELSE <<Head(s)>> \o CutComment(Tail(s))

RECURSIVE TrimStart(_)
\* str::trim_start
TrimStart(s) ==
    IF s # <<>> /\ IsWhitespace(Head(s)) THEN TrimStart(Tail(s)) ELSE s

RECURSIVE TrimEnd(_)
\* str::trim_end
TrimEnd(s) ==
    IF s # <<>> /\ IsWhitespace(s[Len(s)])
    THEN TrimEnd(SubSeq(s, 1, Len(s) - 1)) ELSE s

\* str::trim
Trim(s) == TrimEnd(TrimStart(s))

\* line.split('#').next().unwrap().trim()
Strip(line) == Trim(CutComment(line))

\* ------------------------------------------------------- the slice of a name
\* The byte range 1 .. len-1 of the stripped header line.
SliceBegin(s) == 1

\* (mutation of SliceEnd) the range ends one byte too early.
SliceEndMut(s) == Utf8Len(s) - 2

SliceEnd(s) == Utf8Len(s) - 1

\* Indexing a str by a byte range panics when the range is reversed or an end
\* of it is not a character boundary.
SlicePanics(s) ==
    \/ SliceBegin(s) > SliceEnd(s)
    \/ SliceBegin(s) \notin CharBoundaries(s)
    \/ SliceEnd(s) \notin CharBoundaries(s)

\* The characters of s in the byte range, when the index does not panic.
SliceChars(s) ==
    LET b == CHOOSE k \in 0..Len(s) : Utf8Len(SubSeq(s, 1, k)) = SliceBegin(s)
        e == CHOOSE k \in 0..Len(s) : Utf8Len(SubSeq(s, 1, k)) = SliceEnd(s)
    IN  SubSeq(s, b + 1, e)

\* line[1..line.len() - 1].trim().to_string()
HeaderName(s) == Trim(SliceChars(s))

\* ------------------------------------------------------------------- Group
\* Group { name: String::new(), tags: Vec::new() }
EmptyGroup == [name |-> <<>>, tags |-> <<>>]

\* The branch of a retained line: the test is on the line as it is read.
IsHeader(line) == StartsWith(line, "[")

\* (mutation of PushOnHeader) the finished group is not pushed at a header.
PushOnHeaderMut(gs, group) == gs

\* (mutation of PushOnHeader) the group in progress is pushed at every header.
PushOnHeaderAlways(gs, group) == Append(gs, group)

\* A header line is met: the group in progress is pushed when it has a name.
PushOnHeader(gs, group) ==
    IF group.name # <<>> THEN Append(gs, group) ELSE gs

\* The group in progress after that: a fresh one when the former was pushed.
ResetOnHeader(group) ==
    IF group.name # <<>> THEN EmptyGroup ELSE group

\* (mutation of IsOrphan) no line is an orphan.
IsOrphanMut(line, group) == FALSE

\* A line that is no header, met while the group in progress has no name.
IsOrphan(line, group) == ~IsHeader(line) /\ group.name = <<>>

\* (mutation of FinalPush) the last group is pushed only when it has a name.
FinalPushMut(gs, group) == IF group.name # <<>> THEN Append(gs, group) ELSE gs

\* self.groups.push(group) after the loop.
FinalPush(gs, group) == Append(gs, group)

RECURSIVE ParseLoop(_, _, _)
\* The for loop of parse over the retained lines, then the final push.
\* The result is the value of self.groups and whether the run panicked.
ParseLoop(ls, gs, group) ==
    IF ls = <<>> THEN [groups |-> FinalPush(gs, group), panicked |-> FALSE]
    ELSE LET line == Head(ls) IN
         IF IsHeader(line)
         THEN LET gs1 == PushOnHeader(gs, group)
                  g1 == ResetOnHeader(group)
                  s == Strip(line)
              IN  IF SlicePanics(s)
                  THEN [groups |-> gs1, panicked |-> TRUE]
                  ELSE ParseLoop(Tail(ls), gs1, [g1 EXCEPT !.name = HeaderName(s)])
         ELSE IF IsOrphan(line, group)
         THEN ParseLoop(Tail(ls), gs, group)
         ELSE ParseLoop(Tail(ls), gs,
                        [group EXCEPT !.tags = Append(@, Strip(line))])

\* The outcome of parse on the lines ls, with self.groups = gs at the call.
ParseLines(ls, gs) == ParseLoop(FilterLines(ls), gs, EmptyGroup)

\* (mutation of ParseText) the group list is cleared at the start of a run.
ParseTextMut(text, gs) == ParseLines(Lines(text), <<>>)

\* The outcome of TagParser::parse on the buffer text.
ParseText(text, gs) == ParseLines(Lines(text), gs)

\* ------------------------------------------------------------------ inputs
\* The pieces input texts are assembled from.
Fragments ==
    { <<"[", " ", "a", " ", "]", LF>>,
      <<"[", "b", "]", " ", "#", "c", CR, LF>>,
      <<TAB, "x", " ", "y", " ", "#", "c", LF>>,
      <<LF>>,
      <<"#", "c", LF>>,
      <<"[">>,
      <<"[", "]", LF>>,
      <<Wide, LF>>,
      <<" ">> }

RECURSIVE Flatten(_)
Flatten(ss) == IF ss = <<>> THEN <<>> ELSE Head(ss) \o Flatten(Tail(ss))

\* ------------------------------------------------------------------- state
VARIABLES
    source,   \* the text handed to the constructor (a file's content or a string)
    data,     \* TagParser.data
    groups,   \* TagParser.groups
    status,   \* "none": not constructed; "ready"; "read_panic"; "parse_panic"
    runs      \* the number of parse runs that returned

vars == <<source, data, groups, status, runs>>

Init ==
    /\ \E n \in 0..MaxFrags : \E f \in [1..n -> Fragments] : source = Flatten(f)
    /\ data = <<>>
    /\ groups = <<>>
    /\ status = "none"
    /\ runs = 0

\* TagParser::new: the file is read into data; an unreadable file panics
\* (the unwrap of read_to_string).
new ==
    /\ status = "none"
    /\ \E readable \in BOOLEAN :
          IF readable
          THEN /\ data' = source
               /\ status' = "ready"
          ELSE /\ data' = data
               /\ status' = "read_panic"
    /\ UNCHANGED <<source, groups, runs>>

\* One run of parse on the buffer buf of a parser whose group list is gs.
RunParse(buf, gs) ==
    LET r == ParseText(buf, gs)
    IN  /\ groups' = r.groups
        /\ status' = IF r.panicked THEN "parse_panic" ELSE "ready"
        /\ runs' = IF r.panicked THEN runs ELSE runs + 1

\* impl From<&str> for TagParser: the parser is built and parsed.
from_str ==
    /\ status = "none"
    /\ data' = source
    /\ RunParse(source, <<>>)
    /\ UNCHANGED source

\* impl From<String> for TagParser: Self::from(data.as_str()).
from_string ==
    /\ status = "none"
    /\ data' = source
    /\ RunParse(source, <<>>)
    /\ UNCHANGED source

\* TagParser::parse
parse ==
    /\ status = "ready"
    /\ runs < MaxRuns
    /\ RunParse(data, groups)
    /\ UNCHANGED <<source, data>>

Next == new \/ from_str \/ from_string \/ parse

Spec == Init /\ [][Next]_vars

\* ------------------------------------------------ vocabulary of the claims
\* Exactly one run of parse on the buffer has been made: it returned or panicked.
FirstRun == (status = "ready" /\ runs = 1) \/ status = "parse_panic"

\* What that run left: the group list, and whether it panicked.
Outcome == [groups |-> groups, panicked |-> status = "parse_panic"]

\* Exactly one run of parse has returned.
ParsedOnce == status = "ready" /\ runs = 1

\* The lines of the buffer.
DataLines == Lines(data)

\* The positions of the lines whose first character is '['.
HeaderIdx(L) == {i \in 1..Len(L) : Len(L[i]) > 0 /\ L[i][1] = "["}

\* The positions of the lines that are neither empty, nor full-line comments,
\* nor header lines.
TagIdx(L) == {i \in 1..Len(L) : Len(L[i]) > 0 /\ L[i][1] \notin {"#", "["}}

\* The k-th smallest element of a finite set of integers.
Nth(S, k) == CHOOSE i \in S : Cardinality({j \in S : j < i}) = k - 1

\* The elements of a finite set of integers in increasing order.
Sorted(S) == [k \in 1..Cardinality(S) |-> Nth(S, k)]

\* The text before the first '#', by position.
CutAtHash(s) ==
    LET P == {i \in 1..Len(s) : s[i] = "#"}
    IN  IF P = {} THEN s
        ELSE SubSeq(s, 1, (CHOOSE i \in P : \A j \in P : i <= j) - 1)

\* The text between the first and the last character that is no whitespace.
Trimmed(s) ==
    LET P == {i \in 1..Len(s) : ~IsWhitespace(s[i])}
    IN  IF P = {} THEN <<>>
        ELSE SubSeq(s, CHOOSE i \in P : \A j \in P : i <= j,
                       CHOOSE i \in P : \A j \in P : j <= i)

\* A line cut at its first '#' and trimmed.
Stripped(line) == Trimmed(CutAtHash(line))

\* The text between the first and the last character of a stripped header.
Interior(s) == Trimmed(SubSeq(s, 2, Len(s) - 1))

\* A stripped header of the form '[name]' with a name that is not empty.
WellFormedHeader(s) ==
    /\ Len(s) >= 3
    /\ s[1] = "["
    /\ s[Len(s)] = "]"
    /\ Interior(s) # <<>>

\* The input has a header line, and every header line is well formed.
WellFormed(L) ==
    /\ HeaderIdx(L) # {}
    /\ \A i \in HeaderIdx(L) : WellFormedHeader(Stripped(L[i]))

\* The tag lines between the k-th header line and the next one (or the end).
TagsOfHeader(L, k) ==
    LET H == Sorted(HeaderIdx(L))
        hi == IF k < Len(H) THEN H[k + 1] ELSE Len(L) + 1
        T == Sorted({i \in TagIdx(L) : H[k] < i /\ i < hi})
    IN  [n \in 1..Len(T) |-> Stripped(L[T[n]])]

\* One group per header line, with the tag lines that follow it.
GroupsByHeader(L) ==
    LET H == Sorted(HeaderIdx(L))
    IN  [k \in 1..Len(H) |->
            [name |-> Interior(Stripped(L[H[k]])), tags |-> TagsOfHeader(L, k)]]

RECURSIVE Copies(_, _)
\* k copies of a sequence, one after the other.
Copies(s, k) == IF k = 0 THEN <<>> ELSE s \o Copies(s, k - 1)

IsPrefix(s, t) == Len(s) <= Len(t) /\ SubSeq(t, 1, Len(s)) = s

\* The lines before the first header line removed.
DropOrphans(L) ==
    LET H == HeaderIdx(L)
    IN  IF H = {} THEN <<>> ELSE SubSeq(L, Nth(H, 1), Len(L))

InsertAt(L, i, line) == SubSeq(L, 1, i) \o <<line>> \o SubSeq(L, i + 1, Len(L))

RemoveAt(L, i) == SubSeq(L, 1, i - 1) \o SubSeq(L, i + 1, Len(L))

\* Lines that are empty or whose first character is '#'.
Separators == {<<>>, <<"#">>, <<"#", "c">>, <<"#", "[", "a", "]">>, <<"#", " ", "x">>}

IsSeparator(line) == line = <<>> \/ line[1] = "#"

IsAscii(s) == \A i \in 1..Len(s) : ByteLen(s[i]) = 1

\* A string a tag or a name may be: no '#', no whitespace at either end.
Clean(s) ==
    /\ \A i \in 1..Len(s) : s[i] # "#"
    /\ s # <<>> => ~IsWhitespace(s[1]) /\ ~IsWhitespace(s[Len(s)])

\* -------------------------------------------------------------------- C1
\* C1: for an input with at least one header line, all of the form '[name]'
\* with a name that is not empty, one parse of a fresh parser yields one
\* group per header line, in order, each with exactly the tag lines between
\* its header and the next, one tag per line.
C1_OneGroupPerHeader ==
    (ParsedOnce /\ WellFormed(DataLines)) => groups = GroupsByHeader(DataLines)

\* Two headers, the first followed by one multi-word tag line, the second by none.
C1_Witness ==
    /\ ParsedOnce
    /\ WellFormed(DataLines)
    /\ Len(groups) = 2
    /\ groups[1] = [name |-> <<"a">>, tags |-> << <<"x", " ", "y">> >>]
    /\ groups[2] = [name |-> <<"b">>, tags |-> <<>>]

\* -------------------------------------------------------------------- C2
\* C2: groups() is k copies of the single-parse result of the buffer, k the
\* number of parse runs so far (0 after construction from a path, 1 after
\* construction from text), and a step never changes the groups already there.
C2_AppendOnly ==
    /\ [](status = "ready" => groups = Copies(ParseText(data, <<>>).groups, runs))
    /\ [][IsPrefix(groups, groups')]_vars

\* Two runs on a buffer with two groups: four groups, the result twice.
C2_Witness ==
    /\ status = "ready"
    /\ runs = 2
    /\ Len(groups) = 4
    /\ groups[1] # groups[2]
    /\ groups[3] = groups[1]

\* -------------------------------------------------------------------- C3
\* C3: a header line whose stripped form starts with '[' and does not end
\* with ']' makes parse end in a MalformedHeader error: no crash, no group.
C3_MalformedHeaderError ==
    (FirstRun /\ \E i \in HeaderIdx(DataLines) :
         LET s == Stripped(DataLines[i]) IN s[Len(s)] # "]")
    => status = "malformed_header"

\* -------------------------------------------------------------------- C4
\* C4: the lines before the first header line contribute nothing: the result
\* is the one of the input without them.
C4_OrphansDiscarded ==
    FirstRun => ParseLines(DropOrphans(DataLines), <<>>) = Outcome

\* A tag line ahead of the first header, and a group with a tag after it.
C4_Witness ==
    /\ ParsedOnce
    /\ HeaderIdx(DataLines) # {}
    /\ \E i \in TagIdx(DataLines) : i < Nth(HeaderIdx(DataLines), 1)
    /\ groups[1].name # <<>>
    /\ groups[1].tags # <<>>

\* -------------------------------------------------------------------- C5
\* C5: every emitted tag is a tag line cut at the first '#' and trimmed, every
\* emitted name comes from a header line after the same cut and trim; no tag
\* or name contains '#' or begins or ends with whitespace.
C5_CommentStripping ==
    ParsedOnce =>
        \A g \in 1..Len(groups) :
            /\ Clean(groups[g].name)
            /\ \/ groups[g].name = <<>> /\ g = Len(groups)
               \/ \E i \in HeaderIdx(DataLines) :
                      groups[g].name = Interior(Stripped(DataLines[i]))
            /\ \A t \in 1..Len(groups[g].tags) :
                  /\ Clean(groups[g].tags[t])
                  /\ \E i \in TagIdx(DataLines) :
                         groups[g].tags[t] = Stripped(DataLines[i])

\* A header with an inline comment and a tag line with one, both stored cut.
C5_Witness ==
    /\ ParsedOnce
    /\ \E i \in HeaderIdx(DataLines) : Stripped(DataLines[i]) # Trimmed(DataLines[i])
    /\ \E i \in TagIdx(DataLines) : Stripped(DataLines[i]) # Trimmed(DataLines[i])
    /\ \E g \in 1..Len(groups) :
           /\ groups[g].name = <<"b">>
           /\ groups[g].tags = << <<"x", " ", "y">> >>

\* -------------------------------------------------------------------- C6
\* C6: a retained line is a header exactly when its stripped form begins
\* with '[': such a line opens a group and is never stored as a tag.
C6_HeaderByStrippedForm ==
    ParsedOnce =>
        /\ \A g \in 1..Len(groups) : \A t \in 1..Len(groups[g].tags) :
               ~StartsWith(groups[g].tags[t], "[")
        /\ \A i \in 1..Len(DataLines) :
               (Retained(DataLines[i]) /\ WellFormedHeader(Stripped(DataLines[i])))
               => \E g \in 1..Len(groups) :
                      groups[g].name = Interior(Stripped(DataLines[i]))

\* -------------------------------------------------------------------- C7
\* C7: inserting or removing an empty line or a line whose first character
\* is '#', at any position, leaves the result of parse unchanged.
C7_SeparatorsInsignificant ==
    FirstRun =>
        LET L == DataLines
        IN  /\ \A i \in 0..Len(L) : \A sep \in Separators :
                   ParseLines(InsertAt(L, i, sep), <<>>) = Outcome
            /\ \A i \in 1..Len(L) :
                   IsSeparator(L[i]) => ParseLines(RemoveAt(L, i), <<>>) = Outcome

\* A buffer with a comment line and an empty line, parsed to a group with a tag.
C7_Witness ==
    /\ ParsedOnce
    /\ \E i \in 1..Len(DataLines) : DataLines[i] = <<>>
    /\ \E i \in 1..Len(DataLines) : StartsWith(DataLines[i], "#")
    /\ \E g \in 1..Len(groups) : groups[g].tags # <<>>

\* -------------------------------------------------------------------- C8
\* C8: every run of parse appends at least one group; an input with no
\* header line yields exactly one group, with an empty name and no tags.
C8_AlwaysOneGroup ==
    /\ status = "ready" => Len(groups) >= runs
    /\ (ParsedOnce /\ HeaderIdx(DataLines) = {}) => groups = <<EmptyGroup>>

\* Only orphan tag lines: one group, empty.
C8_Witness ==
    /\ ParsedOnce
    /\ HeaderIdx(DataLines) = {}
    /\ TagIdx(DataLines) # {}
    /\ groups = <<EmptyGroup>>

\* -------------------------------------------------------------------- C9
\* C9: of the groups one parse pass appends, only the last may have an empty
\* name, and a group with an empty name has no tags.
C9_UnnamedOnlyLast ==
    [][\A i \in (Len(groups) + 1)..Len(groups') :
           /\ groups'[i].name = <<>> => groups'[i].tags = <<>>
           /\ groups'[i].name = <<>> => (i = Len(groups') /\ status' = "ready")]_vars

\* A pass that ends on a header with an empty name, after a named group with a tag.
C9_Witness ==
    /\ ParsedOnce
    /\ Len(groups) = 2
    /\ groups[1].name # <<>>
    /\ groups[1].tags # <<>>
    /\ groups[2] = EmptyGroup
    /\ HeaderIdx(DataLines) # {}
    /\ Len(DataLines[Len(DataLines)]) > 0

\* ------------------------------------------------------------------- C10
\* C10: on ASCII input parse panics exactly when some line that starts with
\* '[' has the stripped form "["; a longer header without ']' does not panic.
C10_PanicIffLoneBracket ==
    (FirstRun /\ IsAscii(data)) =>
        (status = "parse_panic"
            <=> \E i \in HeaderIdx(DataLines) : Stripped(DataLines[i]) = <<"[">>)

\* A panic on a lone '[' after an unterminated header of several characters
\* has been taken without one.
C10_Witness ==
    /\ status = "parse_panic"
    /\ IsAscii(data)
    /\ Len(groups) >= 1
    /\ \E i \in HeaderIdx(DataLines) :
           LET s == Stripped(DataLines[i]) IN Len(s) >= 2 /\ s[Len(s)] # "]"

====
